---------------------------- MODULE Spec2Model ----------------------------
(***************************************************************************)
(* findr: depth-limited recursive search of a directory tree for a literal *)
(* key, in file contents or in file names (src/findr/__main__.py).         *)
(*                                                                         *)
(* Text is modelled as sequences of one-character strings, so that strip,  *)
(* replace, index, slicing, path joining and splitting are computed the    *)
(* way Python computes them.  "ESC" stands for the single character \033.  *)
(***************************************************************************)
EXTENDS Integers, Sequences, FiniteSets, TLC

(***************************************************************************)
(* Bounds of the model.                                                    *)
(***************************************************************************)
\* --max-depth is drawn from 0..MaxDepthArg
MaxDepthArg == 4
\* probe lines carry 0..MaxPad filler characters before the first key
MaxPad == 24
\* probe lines carry 0 or MaxTail filler characters after their body
MaxTail == 20

(***************************************************************************)
(* Program constants.                                                      *)
(***************************************************************************)
HIGHLIGHT_MAX_LEN == 40
\* the literal 20 of the context window, `higlight.index(key) > 20`
CONTEXT_LOOKBACK == 20
\* sys_exit(0) and sys_exit(1)
EXIT_OK == 0
EXIT_CANCELLED == 1
\* the status of an interpreter that ends on an exception nothing caught
EXIT_UNCAUGHT == 1

ESC == "ESC"
GREEN == <<ESC, "[", "9", "2", "m">>
RESET == <<ESC, "[", "0", "m">>
NL == "\n"
SEP == "/"

(***************************************************************************)
(* Python string operations on character sequences.                        *)
(***************************************************************************)
\* s[i:] with 0 <= i
Drop(s, i) == SubSeq(s, i + 1, Len(s))

\* s[:n] with 0 <= n
Take(s, n) == SubSeq(s, 1, IF n < Len(s) THEN n ELSE Len(s))

\* the 0-based offsets at which k occurs in s
Occurrences(s, k) ==
    {i \in 0..(Len(s) - Len(k)) : SubSeq(s, i + 1, i + Len(k)) = k}

\* `k in s`
Contains(s, k) == Occurrences(s, k) # {}

\* str.find: the lowest offset of k in s, -1 when k does not occur
Find(s, k) ==
    IF Contains(s, k)
    THEN CHOOSE i \in Occurrences(s, k) : \A j \in Occurrences(s, k) : i <= j
    ELSE -1

\* s.startswith(p)
StartsWith(s, p) == Len(s) >= Len(p) /\ SubSeq(s, 1, Len(p)) = p

Whitespace == {" ", NL}

RECURSIVE LStrip(_)
LStrip(s) ==
    IF s # <<>> /\ Head(s) \in Whitespace THEN LStrip(Tail(s)) ELSE s

RECURSIVE RStrip(_)
RStrip(s) ==
    IF s # <<>> /\ s[Len(s)] \in Whitespace
    THEN RStrip(SubSeq(s, 1, Len(s) - 1))
    ELSE s

\* str.strip()
Strip(s) == RStrip(LStrip(s))

\* str.replace(k, r, 1): only the leftmost occurrence is replaced
ReplaceFirst(s, k, r) ==
    IF Contains(s, k)
    THEN SubSeq(s, 1, Find(s, k)) \o r \o Drop(s, Find(s, k) + Len(k))
    ELSE s

\* str.replace(k, r) for a non-empty k: every occurrence, scanning left to
\* right, an occurrence starting only after the previous one has ended
RECURSIVE Replace(_, _, _)
Replace(s, k, r) ==
    IF Len(s) < Len(k) THEN s
    ELSE IF StartsWith(s, k) THEN r \o Replace(Drop(s, Len(k)), k, r)
    ELSE <<Head(s)>> \o Replace(Tail(s), k, r)

\* fname.split("/")[-1]: what follows the last "/", the whole of fname when
\* it holds none
LastSegment(fname) ==
    IF Contains(fname, <<SEP>>)
    THEN Drop(fname, 1 + CHOOSE i \in Occurrences(fname, <<SEP>>) :
                           \A j \in Occurrences(fname, <<SEP>>) : j <= i)
    ELSE fname

\* os.path.join(a, b) of posixpath, for a relative name b
path_join(a, b) ==
    IF a = <<>> \/ a[Len(a)] = SEP THEN a \o b ELSE a \o <<SEP>> \o b

(***************************************************************************)
(* The matchers.  A matcher call yields a record                            *)
(*   [raised, found, buffer]:                                               *)
(* raised says that the call ended in an Exception instead of returning.    *)
(***************************************************************************)
Raised == [raised |-> TRUE, found |-> FALSE, buffer |-> <<>>]

\* replace(key, key_text, 1): the first occurrence only
Highlight_first(line, key) ==
    ReplaceFirst(Strip(line), key, GREEN \o key \o RESET)

\* line 145: the stripped line with the key replaced by its emphasized form
Highlight(line, key) == Replace(Strip(line), key, GREEN \o key \o RESET)

\* lines 147-148: the context window
Window(higlight, key) ==
    IF Find(higlight, key) > CONTEXT_LOOKBACK
    THEN Drop(higlight, Find(higlight, key) - CONTEXT_LOOKBACK)
    ELSE higlight

\* lines 150-159: the entry appended to the buffer for a matching line.  The
\* location tag is kept as its two numbers; fragment is
\* higlight[:HIGHLIGHT_MAX_LEN]; the entry always ends in one newline, and
\* holds no other, since the fragment comes from a stripped line.
LineEntry(line_num, line, key) ==
    [line     |-> line_num + 1,
     column   |-> Find(line, key) + 1,
     higlight |-> Highlight(line, key),
     fragment |-> Take(Window(Highlight(line, key), key), HIGHLIGHT_MAX_LEN)]

\* higlight.index(key) raises ValueError when the key is not in higlight
IndexRaises(line, key) == ~Contains(Highlight(line, key), key)

\* the loop of lines 139-159 from lines[n] on (0-based line number n - 1),
\* with the entries appended so far in buffer; line 161 at its end
RECURSIVE ScanLines(_, _, _, _)
ScanLines(lines, n, key, buffer) ==
    IF n > Len(lines)
    THEN [raised |-> FALSE, found |-> Len(buffer) > 0, buffer |-> buffer]
    ELSE IF ~Contains(lines[n], key)
    THEN ScanLines(lines, n + 1, key, buffer)
    ELSE IF IndexRaises(lines[n], key)
    THEN Raised
    ELSE ScanLines(lines, n + 1, key,
                   Append(buffer, LineEntry(n - 1, lines[n], key)))

\* search_in_file on a file whose readlines() gives `lines`
search_in_file(lines, key) == ScanLines(lines, 1, key, <<>>)

\* search_in_filename: the key is looked up in fname as it was passed
search_in_filename(fname, key) ==
    IF ~Contains(fname, key)
    THEN [raised |-> FALSE, found |-> FALSE, buffer |-> <<>>]
    ELSE LET start_idx == Find(fname, key)
             end_idx   == start_idx + Len(key)
         IN  [raised |-> FALSE, found |-> TRUE,
              buffer |-> SubSeq(fname, 1, start_idx) \o GREEN
                           \o SubSeq(fname, start_idx + 1, end_idx)
                           \o RESET \o Drop(fname, end_idx)]


(***************************************************************************)
(* The file system under the working directory.                            *)
(*                                                                         *)
(*     1 a/          directory                                             *)
(*     3 a/b/        directory                                             *)
(*     5 a/b/b       regular file                                          *)
(*     6 a/b/a       a link: back to directory 1, or dangling              *)
(*     4 a/a         regular file                                          *)
(*     2 b           regular file                                          *)
(*                                                                         *)
(* fs.hidden holds the entry (at most one) whose name carries a leading    *)
(* ".", fs.unreadable the entry (at most one, possibly the working         *)
(* directory itself) whose open() or listdir() raises PermissionError,     *)
(* fs.link says what entry 6 is, fs.rev whether listdir() enumerates in    *)
(* the reverse order, fs.content gives the lines of each file.             *)
(***************************************************************************)
Nodes == 1..6
Files == {2, 4, 5}
Dirs == {1, 3}
LinkNode == 6
Root == 0

BaseName(n) == IF n \in {1, 4, 6} THEN <<"a">> ELSE <<"b">>

ChildrenOf(n) ==
    CASE n = Root -> <<1, 2>>
      [] n = 1    -> <<3, 4>>
      [] n = 3    -> <<5, 6>>
      [] OTHER    -> <<>>

ContentX == << <<"a", " ", "b", NL>>, <<"b", NL>>, <<"a", "b", NL>> >>
ContentZ == << <<"b", NL>>, <<"b", " ", "a", " ", NL>> >>
\* what each file may hold: a/a ContentX, a/b/b ContentZ, b either
ContentsOf(n) ==
    CASE n = 4 -> {ContentX}
      [] n = 5 -> {ContentZ}
      [] OTHER -> {ContentX, ContentZ}

Keys == { <<"a">>, <<"a", " ">>, <<"a", "b">> }

AtMostOne(S) == {{}} \cup {{n} : n \in S}

FileSystems ==
    {f \in [hidden     : AtMostOne(Files \cup Dirs),
             unreadable : AtMostOne(Files \cup Dirs \cup {Root}),
             link       : {"loop", "dangling"},
             rev        : BOOLEAN,
             content    : [Files -> {ContentX, ContentZ}]] :
        \A n \in Files : f.content[n] \in ContentsOf(n)}

\* the command lines: those that start a traversal, and the usage paths
\* (no key, --help, a --mode that is neither contents nor filenames)
SearchArgs ==
    [key   : Keys,
     mode  : {"contents", "filenames"},
     depth : 0..MaxDepthArg,
     skip  : BOOLEAN,
     help  : {FALSE}]

UsageArgs ==
    { [key |-> <<>>, mode |-> "contents", depth |-> MaxDepthArg,
       skip |-> FALSE, help |-> FALSE],
      [key |-> <<"a">>, mode |-> "contents", depth |-> MaxDepthArg,
       skip |-> FALSE, help |-> TRUE],
      [key |-> <<"a">>, mode |-> "names", depth |-> MaxDepthArg,
       skip |-> FALSE, help |-> FALSE] }

VARIABLES
    fs,           \* the file system, fixed during a run
    argv,         \* the parsed command line
    pc,           \* main: "start", "loop" (inside the try block), "exit"
    files,        \* main: listdir(getcwd())
    fileIdx,      \* main: position of the for loop in files
    stack,        \* the active calls of rec_find, innermost last
    searched,     \* the calls of search_fun made so far
    printed,      \* the calls of print_fun made so far
    status,       \* the exit status, -1 while the process runs
    interrupted,  \* a KeyboardInterrupt was delivered
    probe         \* a matcher applied to one file on its own

vars == <<fs, argv, pc, files, fileIdx, stack, searched, printed, status,
          interrupted, probe>>

\* the entry a link resolves to: isfile, isdir, listdir and open follow links
Resolve(n) == IF n = LinkNode /\ fs.link = "loop" THEN 1 ELSE n

\* os.path.isfile / os.path.isdir
path_isfile(n) == Resolve(n) \in Files
path_isdir(n) == Resolve(n) \in Dirs

NameOf(n) == IF n \in fs.hidden THEN <<".">> \o BaseName(n) ELSE BaseName(n)

Reverse(s) == [i \in 1..Len(s) |-> s[Len(s) + 1 - i]]

\* os.listdir of a readable directory, as the entries in enumeration order
listdir(n) ==
    IF fs.rev THEN Reverse(ChildrenOf(Resolve(n))) ELSE ChildrenOf(Resolve(n))

ListdirRaises(n) == Resolve(n) \in fs.unreadable

\* readlines(): open() raises on an unreadable file
ReadRaises(n) == Resolve(n) \in fs.unreadable
readlines(n) == fs.content[Resolve(n)]

(***************************************************************************)
(* rec_find                                                                *)
(***************************************************************************)
\* the guard written as `max_depth < 0`
DepthExhausted_below_zero(max_depth) == max_depth < 0

\* line 79
DepthExhausted(max_depth) == max_depth <= 0

\* the test applied to the path as a whole: fname.startswith(".")
IsDotfile_whole_path(fname) == StartsWith(fname, <<".">>)

\* line 82: fname.split("/")[-1].startswith(".")
IsDotfile(fname) == StartsWith(LastSegment(fname), <<".">>)

\* the budget handed down as it is: max_depth=max_depth
ChildDepth_same(max_depth) == max_depth

\* line 96
ChildDepth(max_depth) == max_depth - 1

\* the reporter called whatever the matcher returned
Found_always(res) == TRUE

\* line 88: `if found:`
Found(res) == res.found

\* contextlib.suppress(Exception): KeyboardInterrupt is no Exception
Suppresses(exc) == exc # "KeyboardInterrupt"

\* search_fun as main chose it (lines 186-194), applied to entry n at fname
search_fun(fname, n) ==
    IF argv.mode = "contents"
    THEN IF ReadRaises(n) THEN Raised
         ELSE search_in_file(readlines(n), argv.key)
    ELSE search_in_filename(fname, argv.key)

\* a call of search_fun as it is recorded: its arguments and its outcome
Call(fname, n, res) ==
    [fname |-> fname, node |-> n, raised |-> res.raised, found |-> res.found,
     buffer |-> res.buffer]

\* a call of print_fun (print_match_in_file or print_match_in_filename) as
\* it is recorded: the two arguments it was given
print_fun(fname, buffer) == [fname |-> fname, buffer |-> buffer]

Frame(fname, n, max_depth) ==
    [fname |-> fname, node |-> n, max_depth |-> max_depth, at |-> "enter",
     listing |-> <<>>, idx |-> 0]

Top == stack[Len(stack)]
Pop == SubSeq(stack, 1, Len(stack) - 1)
Running == pc = "loop" /\ stack # <<>>
Entered == Running /\ Top.at = "enter"
PassedGuards ==
    /\ Entered
    /\ ~DepthExhausted(Top.max_depth)
    /\ ~(argv.skip /\ IsDotfile(Top.fname))

\* an exception leaves rec_find: it unwinds every active call and reaches the
\* guard of main's loop (line 210), then main's except clause (line 225)
Unwind(exc) ==
    /\ stack' = <<>>
    /\ interrupted' = (interrupted \/ exc = "KeyboardInterrupt")
    /\ IF Suppresses(exc)
       THEN UNCHANGED <<pc, status>>
       ELSE /\ pc' = "exit"
            /\ status' = IF exc = "KeyboardInterrupt" THEN EXIT_CANCELLED
                                                     ELSE EXIT_UNCAUGHT

\* lines 79-80
RecFindDepthExhausted ==
    /\ Entered
    /\ DepthExhausted(Top.max_depth)
    /\ stack' = Pop
    /\ UNCHANGED <<fs, argv, pc, files, fileIdx, searched, printed, status,
                   interrupted, probe>>

\* lines 82-83
RecFindSkipDotfile ==
    /\ Entered
    /\ ~DepthExhausted(Top.max_depth)
    /\ argv.skip /\ IsDotfile(Top.fname)
    /\ stack' = Pop
    /\ UNCHANGED <<fs, argv, pc, files, fileIdx, searched, printed, status,
                   interrupted, probe>>

\* lines 85-89: the matcher, then the reporter, under suppress(Exception)
RecFindFile ==
    /\ PassedGuards
    /\ path_isfile(Top.node)
    /\ searched' = Append(searched,
                          Call(Top.fname, Top.node,
                               search_fun(Top.fname, Top.node)))
    /\ printed' =
          LET res == searched'[Len(searched')]
          IN  IF ~res.raised /\ Found(res)
              THEN Append(printed, print_fun(res.fname, res.buffer))
              ELSE printed
    /\ stack' = Pop
    /\ UNCHANGED <<fs, argv, pc, files, fileIdx, status, interrupted, probe>>

\* lines 91-92: listdir(fname), outside any guard of rec_find
RecFindListdir ==
    /\ PassedGuards
    /\ ~path_isfile(Top.node)
    /\ path_isdir(Top.node)
    /\ IF ListdirRaises(Top.node)
       THEN Unwind("PermissionError")
       ELSE /\ stack' = [stack EXCEPT ![Len(stack)] =
                    [@ EXCEPT !.at = "iter", !.listing = listdir(Top.node),
                              !.idx = 1]]
            /\ UNCHANGED <<pc, status, interrupted>>
    /\ UNCHANGED <<fs, argv, files, fileIdx, searched, printed, probe>>

\* lines 92-100: the next child, called with max_depth - 1
RecFindRecurse ==
    /\ Running
    /\ Top.at = "iter"
    /\ Top.idx <= Len(Top.listing)
    /\ LET child == Top.listing[Top.idx]
       IN  stack' = Append(
               [stack EXCEPT ![Len(stack)] = [@ EXCEPT !.idx = @ + 1]],
               Frame(path_join(Top.fname, NameOf(child)), child,
                     ChildDepth(Top.max_depth)))
    /\ UNCHANGED <<fs, argv, pc, files, fileIdx, searched, printed, status,
                   interrupted, probe>>

\* the for loop of line 92 is exhausted
RecFindReturn ==
    /\ Running
    /\ Top.at = "iter"
    /\ Top.idx > Len(Top.listing)
    /\ stack' = Pop
    /\ UNCHANGED <<fs, argv, pc, files, fileIdx, searched, printed, status,
                   interrupted, probe>>

\* neither a regular file nor a directory: nothing to do
RecFindNeither ==
    /\ PassedGuards
    /\ ~path_isfile(Top.node)
    /\ ~path_isdir(Top.node)
    /\ stack' = Pop
    /\ UNCHANGED <<fs, argv, pc, files, fileIdx, searched, printed, status,
                   interrupted, probe>>

(***************************************************************************)
(* main                                                                    *)
(***************************************************************************)
\* lines 178 and 196: the command line starts no search
IsUsage(a) ==
    a.key = <<>> \/ a.help \/ a.mode \notin {"contents", "filenames"}

\* lines 178-184 and 196-202: usage text, return 0
MainUsage ==
    /\ pc = "start"
    /\ IsUsage(argv)
    /\ pc' = "exit"
    /\ status' = EXIT_OK
    /\ UNCHANGED <<fs, argv, files, fileIdx, stack, searched, printed,
                   interrupted, probe>>

\* line 204, outside the try block: listdir(getcwd()) raises and nothing
\* catches it; the interpreter prints the traceback and exits
MainListdirRaises ==
    /\ pc = "start"
    /\ ~IsUsage(argv)
    /\ ListdirRaises(Root)
    /\ pc' = "exit"
    /\ status' = EXIT_UNCAUGHT
    /\ UNCHANGED <<fs, argv, files, fileIdx, stack, searched, printed,
                   interrupted, probe>>

\* lines 186-206: the matcher is chosen, the working directory is listed
MainListdir ==
    /\ pc = "start"
    /\ ~IsUsage(argv)
    /\ ~ListdirRaises(Root)
    /\ pc' = "loop"
    /\ files' = listdir(Root)
    /\ fileIdx' = 1
    /\ UNCHANGED <<fs, argv, stack, searched, printed, status, interrupted,
                   probe>>

\* lines 209-218: rec_find on the next entry of the working directory
MainCall ==
    /\ pc = "loop"
    /\ stack = <<>>
    /\ fileIdx <= Len(files)
    /\ stack' = <<Frame(NameOf(files[fileIdx]), files[fileIdx], argv.depth)>>
    /\ fileIdx' = fileIdx + 1
    /\ UNCHANGED <<fs, argv, pc, files, searched, printed, status,
                   interrupted, probe>>

\* line 223: sys_exit(0)
MainExit ==
    /\ pc = "loop"
    /\ stack = <<>>
    /\ fileIdx > Len(files)
    /\ pc' = "exit"
    /\ status' = EXIT_OK
    /\ UNCHANGED <<fs, argv, files, fileIdx, stack, searched, printed,
                   interrupted, probe>>

\* a KeyboardInterrupt delivered inside the try block (lines 208-223)
KeyboardInterrupt ==
    /\ pc = "loop"
    /\ Unwind("KeyboardInterrupt")
    /\ UNCHANGED <<fs, argv, files, fileIdx, searched, printed, probe>>

ProbeOff == [at |-> "off"]

Init ==
    /\ fs \in FileSystems
    /\ argv \in SearchArgs \cup UsageArgs
    /\ pc = "start"
    /\ files = <<>>
    /\ fileIdx = 0
    /\ stack = <<>>
    /\ searched = <<>>
    /\ printed = <<>>
    /\ status = -1
    /\ interrupted = FALSE
    /\ probe = ProbeOff

Next ==
    \/ MainUsage
    \/ MainListdirRaises
    \/ MainListdir
    \/ MainCall
    \/ MainExit
    \/ RecFindDepthExhausted
    \/ RecFindSkipDotfile
    \/ RecFindFile
    \/ RecFindListdir
    \/ RecFindRecurse
    \/ RecFindReturn
    \/ RecFindNeither
    \/ KeyboardInterrupt

Spec == Init /\ [][Next]_vars

\* The part of RecFindFile that moves the program on: the call returns.
RecFindFileReturns ==
    /\ PassedGuards
    /\ path_isfile(Top.node)
    /\ stack' = Pop

\* every step of main and rec_find but RecFindFile
Program ==
    \/ MainUsage
    \/ MainListdirRaises
    \/ MainListdir
    \/ MainCall
    \/ MainExit
    \/ RecFindDepthExhausted
    \/ RecFindSkipDotfile
    \/ RecFindListdir
    \/ RecFindRecurse
    \/ RecFindReturn
    \/ RecFindNeither

\* Runs for the termination check: the same program on every shape of the
\* tree (the link, the hidden and the unreadable entry, the order of
\* enumeration) and every command line, with one key and one content of b,
\* which the control flow of the walk does not read.
InitFair ==
    /\ Init
    /\ fs.content[2] = ContentX
    /\ argv.key \in {<<>>, <<"a">>}

\* The interpreter runs single-threaded and is never suspended for ever: a
\* step of main or rec_find that can be taken is taken, unless a
\* KeyboardInterrupt ends the run first.  No fairness is assumed of the
\* interrupt, which may never arrive.
FairSpec ==
    /\ InitFair /\ [][Next]_vars
    /\ WF_vars(Program)
    /\ WF_stack(RecFindFileReturns)

(***************************************************************************)
(* The content matcher on its own: search_in_file applied to a file of one *)
(* line, drawn from lines long enough for the context window and the cap.  *)
(***************************************************************************)
Fill(c, n) == [i \in 1..n |-> c]

ProbeBodies ==
    { <<"a">>, <<"a", "b", "a">>, <<"a", "a", "a">>, <<"m">> }

ProbeKeys == { <<"a">>, <<"a", "a">>, <<"m">> }

ProbeLines ==
    { Fill(" ", lead) \o Fill("b", pad) \o body \o Fill("b", tail) \o <<NL>> :
        lead \in 0..1, pad \in 0..MaxPad, body \in ProbeBodies,
        tail \in {0, MaxTail} }

InitProbe ==
    /\ fs = [hidden |-> {}, unreadable |-> {}, link |-> "dangling",
             rev |-> FALSE, content |-> [n \in Files |-> ContentX]]
    /\ argv = [key |-> <<>>, mode |-> "contents", depth |-> 0,
               skip |-> FALSE, help |-> FALSE]
    /\ pc = "probe"
    /\ files = <<>>
    /\ fileIdx = 0
    /\ stack = <<>>
    /\ searched = <<>>
    /\ printed = <<>>
    /\ status = -1
    /\ interrupted = FALSE
    /\ \E l \in ProbeLines, k \in ProbeKeys :
           probe = [at |-> "call", lines |-> <<l>>, key |-> k]

\* one call of search_in_file(fname, key)
ProbeSearchInFile ==
    /\ probe.at = "call"
    /\ probe' = [at |-> "done", lines |-> probe.lines, key |-> probe.key,
                 res |-> search_in_file(probe.lines, probe.key)]
    /\ UNCHANGED <<fs, argv, pc, files, fileIdx, stack, searched, printed,
                   status, interrupted>>

NextProbe == ProbeSearchInFile

SpecProbe == InitProbe /\ [][NextProbe]_vars


(***************************************************************************)
(* What the tree holds, computed from the file system alone.               *)
(***************************************************************************)
Range(s) == {s[i] : i \in DOMAIN s}
Last(s) == s[Len(s)]

\* the entries reached from the working directory in at most k steps, each
\* as the sequence of entries walked, starting entry first
RECURSIVE Walks(_)
Walks(k) ==
    IF k <= 1 THEN {<<n>> : n \in Range(ChildrenOf(Root))}
    ELSE Walks(k - 1) \cup
         UNION {{Append(w, c) : c \in Range(ChildrenOf(Resolve(Last(w))))} :
                   w \in {v \in Walks(k - 1) : Len(v) = k - 1}}

AllWalks == {w \in Walks(MaxDepthArg + 1) :
                \A i \in 1..(Len(w) - 1) : path_isdir(w[i])}

\* the relative path of a walk
RECURSIVE WalkName(_)
WalkName(w) ==
    IF Len(w) = 1 THEN NameOf(w[1])
    ELSE WalkName(SubSeq(w, 1, Len(w) - 1)) \o <<SEP>> \o NameOf(Last(w))

\* directory levels between the starting entry and the end of the walk
LevelsBelowStart(w) == Len(w) - 1
WithinDepth(w) == LevelsBelowStart(w) < argv.depth
HiddenOnWalk(w) == \E i \in 1..Len(w) : w[i] \in fs.hidden
Pruned(w) == argv.skip /\ HiddenOnWalk(w)
UnreadableAbove(w) ==
    \E i \in 1..(Len(w) - 1) : Resolve(w[i]) \in fs.unreadable
IsFileWalk(w) == path_isfile(Last(w))

\* the 1-based numbers of the lines that contain the key, ascending
RECURSIVE MatchingLines(_, _, _)
MatchingLines(lines, n, key) ==
    IF n > Len(lines) THEN <<>>
    ELSE (IF Contains(lines[n], key) THEN <<n>> ELSE <<>>)
           \o MatchingLines(lines, n + 1, key)

LineNumbers(buffer) == [i \in 1..Len(buffer) |-> buffer[i].line]

PrintedFor(fname) == {i \in DOMAIN printed : printed[i].fname = fname}
SearchedFor(fname) == {i \in DOMAIN searched : searched[i].fname = fname}

Completed == pc = "exit" /\ status = EXIT_OK /\ ~IsUsage(argv)

\* the number of "/" in a path
Slashes(fname) == Cardinality(Occurrences(fname, <<SEP>>))

\* some segment of the path begins with "."
HasDotSegment(fname) ==
    StartsWith(fname, <<".">>) \/ Contains(fname, <<SEP, ".">>)

(***************************************************************************)
(* C1: in contents mode, on a tree without links or unreadable entries,    *)
(* every regular file within the depth budget and outside hidden entries   *)
(* that holds the key on some line is reported by exactly one print_fun    *)
(* call, whose buffer has one entry per line holding the key, ascending.   *)
(***************************************************************************)
C1_EveryMatchingFileReportedOnce ==
    (Completed /\ argv.mode = "contents" /\ fs.unreadable = {}
       /\ fs.link # "loop")
    => \A w \in AllWalks :
          (IsFileWalk(w) /\ WithinDepth(w) /\ ~Pruned(w)
             /\ MatchingLines(readlines(Last(w)), 1, argv.key) # <<>>)
          => /\ Cardinality(PrintedFor(WalkName(w))) = 1
             /\ \A i \in PrintedFor(WalkName(w)) :
                   LineNumbers(printed[i].buffer)
                     = MatchingLines(readlines(Last(w)), 1, argv.key)

(***************************************************************************)
(* C2: with one unreadable file or directory below the working directory   *)
(* the search still completes, and every other regular file within depth   *)
(* that the matcher accepts is searched and reported, the entries          *)
(* enumerated after the unreadable one included.                           *)
(***************************************************************************)
C2_ErrorsContained ==
    (pc = "exit" /\ ~IsUsage(argv) /\ ~interrupted /\ fs.unreadable # {}
       /\ Root \notin fs.unreadable)
    => /\ status = EXIT_OK
       /\ \A w \in AllWalks :
             (IsFileWalk(w) /\ WithinDepth(w) /\ ~Pruned(w)
                /\ ~UnreadableAbove(w)
                /\ search_fun(WalkName(w), Last(w)).found)
             => /\ SearchedFor(WalkName(w)) # {}
                /\ PrintedFor(WalkName(w)) # {}

(***************************************************************************)
(* C3: the call at nesting level i runs with max_depth = depth - (i - 1);  *)
(* a file is handed to the matcher only if fewer than depth directory      *)
(* levels lie between it and the starting entry; with depth 0 there is no  *)
(* matcher and no reporter call, with depth 1 only starting entries are    *)
(* reported.                                                               *)
(***************************************************************************)
C3_DepthBudget ==
    /\ \A i \in DOMAIN stack : stack[i].max_depth = argv.depth - (i - 1)
    /\ \A i \in DOMAIN searched : Slashes(searched[i].fname) < argv.depth
    /\ \A i \in DOMAIN printed : Slashes(printed[i].fname) < argv.depth
    /\ argv.depth = 0 => searched = <<>> /\ printed = <<>>
    /\ argv.depth = 1 => \A i \in DOMAIN printed : Slashes(printed[i].fname) = 0

\* a completed run with depth 2: a/a was searched, a/b/b was cut off
C3_Witness ==
    /\ Completed /\ argv.depth = 2 /\ ~argv.skip /\ fs.unreadable = {}
    /\ \E i \in DOMAIN searched : Slashes(searched[i].fname) = 1
    /\ \A i \in DOMAIN searched : searched[i].node # 5

(***************************************************************************)
(* C4: with --skip-dotfiles no path with a segment that begins with "."    *)
(* is handed to the matcher, reported or listed, at any level.             *)
(***************************************************************************)
C4_DotfilesPruned ==
    argv.skip =>
       /\ \A i \in DOMAIN searched : ~HasDotSegment(searched[i].fname)
       /\ \A i \in DOMAIN printed : ~HasDotSegment(printed[i].fname)
       /\ \A i \in DOMAIN stack :
             stack[i].at = "iter" => ~HasDotSegment(stack[i].fname)

\* a completed run that skipped the hidden directory a/.b while its siblings
\* were searched
C4_Witness ==
    /\ Completed /\ argv.skip /\ fs.hidden = {3} /\ argv.depth >= 3
    /\ fs.unreadable = {}
    /\ \E i \in DOMAIN searched : searched[i].node = 4
    /\ \A i \in DOMAIN searched : searched[i].node # 5

(***************************************************************************)
(* C5: in filenames mode the matcher finds the key exactly when the key    *)
(* occurs in the base name of the file; otherwise found is false and the   *)
(* buffer is empty, also when a directory of the path holds the key.       *)
(***************************************************************************)
C5_BaseNameOnly ==
    argv.mode = "filenames" =>
       \A i \in DOMAIN searched :
          /\ searched[i].found
               <=> Contains(NameOf(searched[i].node), argv.key)
          /\ ~Contains(NameOf(searched[i].node), argv.key)
               => ~searched[i].found /\ searched[i].buffer = <<>>

(***************************************************************************)
(* C6: print_fun is called for a path exactly when search_fun was called   *)
(* on it and returned found = true, with that path and that buffer; a path *)
(* is searched at most once and reported at most once, and only regular    *)
(* files are searched.                                                     *)
(***************************************************************************)
C6_ReportedIffFound ==
    /\ \A i \in DOMAIN printed :
          \E j \in DOMAIN searched :
             /\ searched[j].fname = printed[i].fname
             /\ searched[j].buffer = printed[i].buffer
             /\ searched[j].found /\ ~searched[j].raised
    /\ \A j \in DOMAIN searched :
          /\ path_isfile(searched[j].node)
          /\ Cardinality(SearchedFor(searched[j].fname)) = 1
          /\ Cardinality(PrintedFor(searched[j].fname))
               = (IF searched[j].found THEN 1 ELSE 0)

\* a completed run with a reported file, a file without the key and a file
\* whose matcher raised
C6_Witness ==
    /\ Completed
    /\ \E i \in DOMAIN searched : searched[i].found
    /\ \E i \in DOMAIN searched : ~searched[i].found /\ ~searched[i].raised
    /\ \E i \in DOMAIN searched : searched[i].raised

(***************************************************************************)
(* C8: the process ends with status 0 on the usage paths, which search     *)
(* nothing, and when the loop over the working directory has run to its    *)
(* end; it ends with status 1 when a KeyboardInterrupt arrived during the  *)
(* traversal, and nothing else ends a run early.  The interrupt ends the   *)
(* run at once, so no matcher or reporter call follows it.                 *)
(***************************************************************************)
C8_ExitCodes ==
    /\ interrupted => pc = "exit" /\ status = EXIT_CANCELLED
    /\ pc = "exit" =>
          /\ status \in {EXIT_OK, EXIT_CANCELLED}
          /\ IsUsage(argv) =>
                status = EXIT_OK /\ files = <<>> /\ searched = <<>>
                   /\ printed = <<>>
          /\ ~IsUsage(argv) /\ ~interrupted =>
                status = EXIT_OK /\ fileIdx > Len(files) /\ stack = <<>>

(***************************************************************************)
(* C10: the calls of rec_find made by rec_find never nest deeper than      *)
(* max_depth, no Exception raised inside rec_find passes main's guard,     *)
(* every started entry of the working directory is finished, and the run   *)
(* ends, also on a tree with a link back to an ancestor.                   *)
(***************************************************************************)
RecursionLevels == IF stack = <<>> THEN 0 ELSE Len(stack) - 1

C10_Bounded ==
    /\ RecursionLevels <= argv.depth
    /\ (pc = "exit" /\ ~interrupted /\ ~ListdirRaises(Root))
          => status = EXIT_OK

C10_Terminates ==
    /\ []C10_Bounded
    /\ \A k \in 1..2 :
          (pc = "loop" /\ stack # <<>> /\ fileIdx = k + 1)
             ~> (stack = <<>> /\ (pc = "exit" \/ fileIdx >= k + 1))
    /\ <>(pc = "exit")

\* a completed run that walked through the link back to a/ and searched the
\* file a/b/a/a, three levels below the starting entry
C10_Witness ==
    /\ Completed /\ fs.link = "loop"
    /\ \E i \in DOMAIN searched : Slashes(searched[i].fname) = 3

(***************************************************************************)
(* C7: a fragment is at most 40 characters long, and when the column of    *)
(* the key is beyond 20 the fragment starts with the 20 characters of the  *)
(* line that precede the key, followed by the emphasized key.              *)
(***************************************************************************)
ProbeEntries ==
    IF probe.at = "done" /\ ~probe.res.raised
    THEN Range(probe.res.buffer) ELSE {}
ProbeLine == probe.lines[1]

C7_FragmentWindow ==
    \A e \in ProbeEntries :
       /\ Len(e.fragment) <= HIGHLIGHT_MAX_LEN
       /\ e.column > CONTEXT_LOOKBACK
            => /\ Take(e.fragment, CONTEXT_LOOKBACK)
                    = SubSeq(ProbeLine, e.column - CONTEXT_LOOKBACK,
                             e.column - 1)
               /\ StartsWith(Drop(e.fragment, CONTEXT_LOOKBACK), GREEN)

RECURSIVE CountApart(_, _)
CountApart(s, k) ==
    IF ~Contains(s, k) THEN 0
    ELSE 1 + CountApart(Drop(s, Find(s, k) + Len(k)), k)

\* h without the occurrences of the marker m
RECURSIVE Without(_, _)
Without(h, m) ==
    IF ~Contains(h, m) THEN h
    ELSE SubSeq(h, 1, Find(h, m)) \o Without(Drop(h, Find(h, m) + Len(m)), m)

=============================================================================
